---- MODULE Spec2Model ----
(***************************************************************************)
(* Model of the invoice-insights evaluator (src/evaluator/evaluator.py):   *)
(* the response parser _parse_json and the evaluate pipeline (extraction,  *)
(* three judges, weighted aggregation).                                    *)
(*                                                                         *)
(* Representation.                                                         *)
(*  - A Python str is a sequence of tokens.  A token is one lexical unit   *)
(*    of the text: the fence (three backticks), a newline, a left or       *)
(*    right brace, the key score (string and colon), a number literal, a   *)
(*    string literal, null, or a word of prose that holds none of these.   *)
(*    Every str operation the code uses (strip,                            *)
(*    startswith, index, find, rfind, slicing, endswith) looks only for    *)
(*    the fence, the newline and the braces, which are tokens of their     *)
(*    own, so the operations act on token sequences as they act on the     *)
(*    characters.  The fence is three characters and one token: the        *)
(*    slice cleaned[:-3] drops one token.                                  *)
(*  - Numbers are fixed-point, in hundredths: 350 is 3.5, 10000 is 100.    *)
(*  - A Python value is a record tagged by kind; a dict is a function      *)
(*    whose DOMAIN is the set of keys present.                             *)
(***************************************************************************)
EXTENDS Integers, Sequences, FiniteSets, TLC

VARIABLES
    pc,                    \* position of evaluate: "extract", "judge_fc", ...
    image_path,            \* evaluate's argument image_path
    image_exists,          \* Path(image_path).exists()
    parser_raw_text,       \* evaluate's argument parser_raw_text
    extracted_text,        \* local of evaluate (line 215)
    factual_completeness,  \* local of evaluate: judge A's slot
    quality,               \* local of evaluate: judge B's slot
    parsing_consistency,   \* local of evaluate: judge C's slot
    calls,                 \* number of generate_content calls, per collaborator
    judged,                \* what each judge function returned or raised
    result,                \* what evaluate returned or raised
    text,                  \* argument of a direct _parse_json call
    parsed,                \* what that _parse_json call returned or raised
    wpc,                   \* position of run (src/main.py) or of a node call
    state,                 \* the WorkflowState of the graph
    updates,               \* the dict each node returned
    wcalls,                \* calls of the OCR parser, the generator, evaluate
    wout,                  \* what the OCR parser and the generator did
    run_result             \* what run returned or raised

vars == <<pc, image_path, image_exists, parser_raw_text, extracted_text,
          factual_completeness, quality, parsing_consistency, calls, judged,
          result, text, parsed, wpc, state, updates, wcalls, wout, run_result>>

evalVars == <<pc, image_path, image_exists, parser_raw_text, extracted_text,
              factual_completeness, quality, parsing_consistency, calls, judged,
              result>>

parserVars == <<text, parsed>>

wfVars == <<wpc, state, updates, wcalls, wout, run_result>>

----------------------------------------------------------------------------
(* Bounds *)

\* longest text handed to _parse_json in ParserSpec
MaxTextLen == 6

----------------------------------------------------------------------------
(* Tokens and Python values *)

Tok(t) == [t |-> t, v |-> 0]
NumTok(n) == [t |-> "num", v |-> n]

Fence == Tok("fence")
NL == Tok("newline")
LBrace == Tok("lbrace")
RBrace == Tok("rbrace")
ScoreKey == Tok("key_score")
StrTok == Tok("string")
NullTok == Tok("null")
Word == Tok("word")

IsSpace(tok) == tok.t = "newline"

PyNum(n) == [kind |-> "num", n |-> n]
PyStr(s) == [kind |-> "str", s |-> s]
PyNone == [kind |-> "None"]
PyDict(d) == [kind |-> "dict", d |-> d]
EmptyDict == [k \in {} |-> PyNone]

IsDict(v) == v.kind = "dict"
IsNumber(v) == v.kind = "num"

\* outcome of a call: a returned value or a raised exception
Return(v) == [exc |-> "none", val |-> v]
Raise(e, msg) == [exc |-> e, msg |-> msg]
NotCalled == [exc |-> "not called"]

Returned(o) == o.exc = "none"
Raised(o) == o.exc \notin {"none", "not called"}

----------------------------------------------------------------------------
(* str operations used by _parse_json, with Python 0-based indices *)

\* s[a:b] for 0 <= a and 0 <= b <= len(s)
Slice(s, a, b) == SubSeq(s, a + 1, b)

RECURSIVE LStrip(_)
LStrip(s) == IF s # <<>> /\ IsSpace(Head(s)) THEN LStrip(Tail(s)) ELSE s

RECURSIVE RStrip(_)
RStrip(s) ==
    IF s # <<>> /\ IsSpace(s[Len(s)]) THEN RStrip(SubSeq(s, 1, Len(s) - 1)) ELSE s

\* str.strip()
Strip(s) == RStrip(LStrip(s))

\* str.startswith(fence), str.endswith(fence)
StartsWithFence(s) == s # <<>> /\ s[1] = Fence
EndsWithFence(s) == s # <<>> /\ s[Len(s)] = Fence

\* str.find(c): index of the first c, -1 when there is none
Find(s, c) ==
    LET hits == {i \in 1..Len(s) : s[i] = c}
    IN  IF hits = {} THEN -1
        ELSE (CHOOSE i \in hits : \A j \in hits : i <= j) - 1

\* str.rfind(c): index of the last c, -1 when there is none
RFind(s, c) ==
    LET hits == {i \in 1..Len(s) : s[i] = c}
    IN  IF hits = {} THEN -1
        ELSE (CHOOSE i \in hits : \A j \in hits : i >= j) - 1

----------------------------------------------------------------------------
(* json.loads on token sequences.  The grammar covers whitespace, numbers, *)
(* string literals, null and objects with at most the one member score     *)
(* (whose value is again any value).                                       *)

RECURSIVE SkipSpace(_, _)
SkipSpace(s, i) ==
    IF i <= Len(s) /\ IsSpace(s[i]) THEN SkipSpace(s, i + 1) ELSE i

NoValue == [ok |-> FALSE]
Value(v, next) == [ok |-> TRUE, val |-> v, next |-> next]

RECURSIVE ParseValue(_, _)
ParseValue(s, i) ==
    IF i > Len(s) THEN NoValue
    ELSE IF s[i].t = "num" THEN Value(PyNum(s[i].v), i + 1)
    ELSE IF s[i] = StrTok THEN Value(PyStr(<<s[i]>>), i + 1)
    ELSE IF s[i] = NullTok THEN Value(PyNone, i + 1)
    ELSE IF s[i] = LBrace THEN
        LET j == SkipSpace(s, i + 1)
        IN  IF j > Len(s) THEN NoValue
            ELSE IF s[j] = RBrace THEN Value(PyDict(EmptyDict), j + 1)
            ELSE IF s[j] = ScoreKey THEN
                LET m == ParseValue(s, SkipSpace(s, j + 1))
                IN  IF ~m.ok THEN NoValue
                    ELSE LET k == SkipSpace(s, m.next)
                         IN  IF k <= Len(s) /\ s[k] = RBrace
                             THEN Value(PyDict([score |-> m.val]), k + 1)
                             ELSE NoValue
            ELSE NoValue
    ELSE NoValue

\* json.loads(s): the decoded value, or JSONDecodeError
JsonLoads(s) ==
    LET r == ParseValue(s, SkipSpace(s, 1))
    IN  IF r.ok /\ SkipSpace(s, r.next) > Len(s)
        THEN Return(r.val)
        ELSE Raise("JSONDecodeError", <<Tok("Expecting value")>>)

----------------------------------------------------------------------------
(* _parse_json *)

\* lines 283, 284: the failure object
ParseFailure(t) == PyDict([error |-> PyStr(<<Tok("Parse failed")>>), raw |-> PyStr(t)])

\* lines 269-273: the text after its leading fence line, less a trailing fence
FenceStripped(cleaned) ==
    LET first_newline == Find(cleaned, NL)
        rest == Slice(cleaned, first_newline + 1, Len(cleaned))
    IN  Strip(IF EndsWithFence(rest) THEN Slice(rest, 0, Len(rest) - 1) ELSE rest)

\* mutant of BraceFallback: the substring ends at the first right brace
BraceFallbackFirstClose(t) ==
    LET start == Find(t, LBrace)
        end == Find(t, RBrace) + 1
    IN  IF start # -1 /\ end > start
        THEN LET sub == JsonLoads(Slice(t, start, end))
             IN  IF Returned(sub) THEN sub ELSE Return(ParseFailure(t))
        ELSE Return(ParseFailure(t))

\* lines 278-284: decode the text from its first left brace to its last right brace
BraceFallback(t) ==
    LET start == Find(t, LBrace)
        end == RFind(t, RBrace) + 1
    IN  IF start # -1 /\ end > start
        THEN LET sub == JsonLoads(Slice(t, start, end))
             IN  IF Returned(sub) THEN sub ELSE Return(ParseFailure(t))
        ELSE Return(ParseFailure(t))

\* mutant of _parse_json: the text is decoded as it is, with neither the
\* fence handling nor the brace fallback
ParseJsonStrictOnly(t) ==
    LET strict == JsonLoads(Strip(t))
    IN  IF Returned(strict) THEN strict ELSE Return(ParseFailure(t))

\* lines 264-284
_parse_json(t) ==
    LET stripped == Strip(t)
    IN  IF StartsWithFence(stripped) /\ Find(stripped, NL) = -1
        THEN Raise("ValueError", <<Tok("substring not found")>>)
        ELSE LET cleaned == IF StartsWithFence(stripped)
                            THEN FenceStripped(stripped)
                            ELSE stripped
                 strict == JsonLoads(cleaned)
             IN  IF Returned(strict) THEN strict ELSE BraceFallback(t)

----------------------------------------------------------------------------
(* The external collaborators of evaluate *)

Judges == {"factual_completeness", "quality", "parsing_consistency"}
Collaborators == Judges \cup {"extract"}

ImagePaths == {<<Tok("a.png")>>, <<Tok("b.jpg")>>}
OcrTexts == {<<>>, <<Tok("ocr text")>>}
ExtractedTexts == {<<Tok("invoice text")>>}

\* scores a judge model may answer, in hundredths: 0, 1, 3.5, 4, 4.5, 83.33,
\* 83.35 (whose weighted term 25.005 is a rounding tie), 100 and 120
ScoreNums == {0, 100, 350, 400, 450, 8333, 8335, 10000, 12000}

Verdict(n) == <<LBrace, ScoreKey, NumTok(n), RBrace>>

\* texts a judge model may answer
JudgeResponses ==
    {<<Fence, Word, NL>> \o Verdict(n) \o <<NL, Fence>> : n \in ScoreNums}
    \cup {<<Word>> \o Verdict(n) \o <<Word>> : n \in {350, 8333}}
    \cup {<<LBrace, RBrace>>,
          <<LBrace, ScoreKey, StrTok, RBrace>>,
          <<LBrace, ScoreKey, NullTok, RBrace>>,
          <<LBrace, ScoreKey, LBrace, RBrace, RBrace>>,
          <<NumTok(4200)>>, <<StrTok>>, <<NullTok>>,
          <<Word>>, <<>>,
          <<Fence, LBrace, RBrace, Fence>>}

\* client.models.generate_content(...): it raises, or answers with a text
ModelCalls ==
    {Raise("Exception", <<Tok("boom")>>)} \cup {Return(t) : t \in JudgeResponses}

----------------------------------------------------------------------------
(* The judges: lines 101-102, 161-162, 207-208 *)

judge_factual_completeness(response) ==
    IF Raised(response) THEN response ELSE _parse_json(response.val)

judge_quality(response) ==
    IF Raised(response) THEN response ELSE _parse_json(response.val)

judge_parsing_consistency(response) ==
    IF Raised(response) THEN response ELSE _parse_json(response.val)

\* mutant of JudgeFailed: the stub lacks its score
JudgeFailedNoScore(e) ==
    PyDict([error |-> PyStr(<<Tok("Judge failed: ")>> \o e.msg)])

\* the except clauses of lines 224-227, 231-234, 238-241
JudgeFailed(e) ==
    PyDict([error |-> PyStr(<<Tok("Judge failed: ")>> \o e.msg), score |-> PyNum(0)])

\* a judge's try statement: the slot after it
JudgeSlot(o) == IF Returned(o) THEN o.val ELSE JudgeFailed(o)

\* mutant of JudgeCRuns: judge C is run whatever parser_raw_text holds
JudgeCAlwaysRuns(raw) == TRUE

\* line 237: the truth value of parser_raw_text
JudgeCRuns(raw) == raw # <<>>

\* line 237: the slot of the judge that is not run
SkipStub ==
    PyDict([score |-> PyNum(0),
            skipped |-> PyStr(<<Tok("No parser raw text provided")>>)])

----------------------------------------------------------------------------
(* The aggregation: lines 243-261 *)

Hundredths(n) == n * 100

\* line 246: the largest score read as a 1-4 rubric score
QualityScaleMax == 4
\* line 247
QualityFactor == 25
\* lines 250-252: the weights 0.4, 0.3 and 0.3, in tenths
WeightFactual == 4
WeightQuality == 3
WeightParsing == 3

\* mutant of GetScore: the default is 1 instead of 0
GetScoreDefaultOne(slot) ==
    IF "score" \in DOMAIN slot.d THEN slot.d.score ELSE PyNum(Hundredths(1))

\* d.get("score", 0) of a dict
GetScore(slot) == IF "score" \in DOMAIN slot.d THEN slot.d.score ELSE PyNum(0)

\* mutant of QualityNormalized: the comparison is < 4 instead of <= 4
QualityNormalizedBelowMax(q) ==
    IF IsNumber(q) /\ q.n < Hundredths(QualityScaleMax)
    THEN PyNum(q.n * QualityFactor)
    ELSE q

\* lines 246-247
QualityNormalized(q) ==
    IF IsNumber(q) /\ q.n <= Hundredths(QualityScaleMax)
    THEN PyNum(q.n * QualityFactor)
    ELSE q

\* mutant of Overall: the parsing-consistency score enters unweighted
OverallParsingUnweighted(fc, qn, pcs) ==
    fc.n * WeightFactual + qn.n * WeightQuality + pcs.n * 10

\* lines 249-253, in thousandths (hundredths times tenths)
Overall(fc, qn, pcs) ==
    fc.n * WeightFactual + qn.n * WeightQuality + pcs.n * WeightParsing

\* mutant of Round2: the sum is cut to 2 decimals instead of rounded
Round2Truncated(x) == {x \div 10}

\* round(overall, 2): thousandths to hundredths.  The weighted sum is a
\* binary float: off a tie it is within 1e-12 of the exact sum and rounds as
\* the exact sum does; at a tie it lies on either side of it.
Round2(x) ==
    IF x % 10 = 5 THEN {x \div 10, x \div 10 + 1} ELSE {(x + 5) \div 10}

\* mutant of ResultDict: the error of a failed judge is copied to the top level
ResultDictWithError(ext, fc, q, pcs, overall) ==
    LET full == [extracted_text |-> PyStr(ext),
                 factual_completeness |-> fc,
                 quality |-> q,
                 parsing_consistency |-> pcs,
                 overall_score |-> PyNum(overall)]
        failed == {v \in {fc, q, pcs} : "error" \in DOMAIN v.d}
    IN  IF failed = {} THEN PyDict(full)
        ELSE PyDict([k \in DOMAIN full \cup {"error"} |->
                        IF k = "error" THEN (CHOOSE v \in failed : TRUE).d.error
                        ELSE full[k]])

\* lines 255-261
ResultDict(ext, fc, q, pcs, overall) ==
    PyDict([extracted_text |-> PyStr(ext),
            factual_completeness |-> fc,
            quality |-> q,
            parsing_consistency |-> pcs,
            overall_score |-> PyNum(overall)])

NoGet == Raise("AttributeError", <<Tok("object has no attribute 'get'")>>)
NoMul == Raise("TypeError", <<Tok("unsupported operand type(s) for *")>>)

\* lines 243-261, in Python's order of evaluation: the outcomes of the rest
\* of evaluate once the three slots are set
Aggregated(ext, fc, q, pcs) ==
    IF ~IsDict(q) THEN {NoGet}
    ELSE IF ~IsDict(fc) THEN {NoGet}
    ELSE IF ~IsNumber(GetScore(fc)) THEN {NoMul}
    ELSE IF ~IsNumber(QualityNormalized(GetScore(q))) THEN {NoMul}
    ELSE IF ~IsDict(pcs) THEN {NoGet}
    ELSE IF ~IsNumber(GetScore(pcs)) THEN {NoMul}
    ELSE {Return(ResultDict(ext, fc, q, pcs, r)) :
            r \in Round2(Overall(GetScore(fc), QualityNormalized(GetScore(q)),
                                 GetScore(pcs)))}

----------------------------------------------------------------------------
(* evaluate, step by step *)

\* mutant of ImageMissing: the existence check is left out
ImageNeverMissing(exists) == FALSE

\* line 36
ImageMissing(exists) == ~exists

\* line 217
NotFoundResult(path) ==
    PyDict([error |-> PyStr(<<Tok("Image not found: ")>> \o path)])

\* line 219
ExtractFailedResult(e) ==
    PyDict([error |-> PyStr(<<Tok("Failed to extract invoice text: ")>> \o e.msg)])

Unset == [kind |-> "unset"]

\* no run of the workflow is under way
WorkflowIdle ==
    /\ wpc = "idle"
    /\ state = EmptyDict
    /\ updates = [parse |-> NotCalled, generate |-> NotCalled]
    /\ wcalls = [parser |-> 0, generator |-> 0, evaluate |-> 0]
    /\ wout = [parser |-> NotCalled, generator |-> NotCalled]
    /\ run_result = NotCalled

\* mutant of Called: a call is tried a second time
CalledWithRetry(c) == calls' = [calls EXCEPT ![c] = @ + 2]

\* one generate_content call of collaborator c
Called(c) == calls' = [calls EXCEPT ![c] = @ + 1]

\* lines 35-37, 216-217: the image is not there
ExtractNotFound ==
    /\ pc = "extract"
    /\ ImageMissing(image_exists)
    /\ result' = Return(NotFoundResult(image_path))
    /\ pc' = "done"
    /\ UNCHANGED <<image_path, image_exists, parser_raw_text, extracted_text,
                   factual_completeness, quality, parsing_consistency, calls,
                   judged, text, parsed, wfVars>>

\* lines 39, 218-219: reading the image raises (a directory, no permission)
ExtractReadFails ==
    /\ pc = "extract"
    /\ ~ImageMissing(image_exists)
    /\ result' = Return(ExtractFailedResult(Raise("OSError", <<Tok("cannot read")>>)))
    /\ pc' = "done"
    /\ UNCHANGED <<image_path, image_exists, parser_raw_text, extracted_text,
                   factual_completeness, quality, parsing_consistency, calls,
                   judged, text, parsed, wfVars>>

\* lines 42-48, 218-219: the extraction call raises
ExtractCallFails ==
    /\ pc = "extract"
    /\ ~ImageMissing(image_exists)
    /\ Called("extract")
    /\ result' = Return(ExtractFailedResult(Raise("Exception", <<Tok("boom")>>)))
    /\ pc' = "done"
    /\ UNCHANGED <<image_path, image_exists, parser_raw_text, extracted_text,
                   factual_completeness, quality, parsing_consistency, judged,
                   text, parsed, wfVars>>

\* lines 42-49, 215: the extraction call answers
ExtractOk ==
    /\ pc = "extract"
    /\ ~ImageMissing(image_exists)
    /\ Called("extract")
    /\ extracted_text' \in ExtractedTexts
    /\ pc' = "judge_fc"
    /\ UNCHANGED <<image_path, image_exists, parser_raw_text,
                   factual_completeness, quality, parsing_consistency, judged,
                   result, text, parsed, wfVars>>

\* lines 222-227
JudgeFactualCompleteness ==
    /\ pc = "judge_fc"
    /\ \E response \in ModelCalls :
        LET o == judge_factual_completeness(response)
        IN  /\ judged' = [judged EXCEPT !["factual_completeness"] = o]
            /\ factual_completeness' = JudgeSlot(o)
    /\ Called("factual_completeness")
    /\ pc' = "judge_quality"
    /\ UNCHANGED <<image_path, image_exists, parser_raw_text, extracted_text,
                   quality, parsing_consistency, result, text, parsed, wfVars>>

\* lines 229-234
JudgeQuality ==
    /\ pc = "judge_quality"
    /\ \E response \in ModelCalls :
        LET o == judge_quality(response)
        IN  /\ judged' = [judged EXCEPT !["quality"] = o]
            /\ quality' = JudgeSlot(o)
    /\ Called("quality")
    /\ pc' = "judge_pc"
    /\ UNCHANGED <<image_path, image_exists, parser_raw_text, extracted_text,
                   factual_completeness, parsing_consistency, result, text,
                   parsed, wfVars>>

\* lines 236-241, parser_raw_text given
JudgeParsingConsistency ==
    /\ pc = "judge_pc"
    /\ JudgeCRuns(parser_raw_text)
    /\ \E response \in ModelCalls :
        LET o == judge_parsing_consistency(response)
        IN  /\ judged' = [judged EXCEPT !["parsing_consistency"] = o]
            /\ parsing_consistency' = JudgeSlot(o)
    /\ Called("parsing_consistency")
    /\ pc' = "aggregate"
    /\ UNCHANGED <<image_path, image_exists, parser_raw_text, extracted_text,
                   factual_completeness, quality, result, text, parsed, wfVars>>

\* lines 236-241, parser_raw_text empty
SkipParsingConsistency ==
    /\ pc = "judge_pc"
    /\ ~JudgeCRuns(parser_raw_text)
    /\ parsing_consistency' = SkipStub
    /\ pc' = "aggregate"
    /\ UNCHANGED <<image_path, image_exists, parser_raw_text, extracted_text,
                   factual_completeness, quality, calls, judged, result, text,
                   parsed, wfVars>>

\* lines 243-261
Aggregate ==
    /\ pc = "aggregate"
    /\ result' \in Aggregated(extracted_text, factual_completeness, quality,
                              parsing_consistency)
    /\ pc' = "done"
    /\ UNCHANGED <<image_path, image_exists, parser_raw_text, extracted_text,
                   factual_completeness, quality, parsing_consistency, calls,
                   judged, text, parsed, wfVars>>

Init ==
    /\ pc = "extract"
    /\ image_path \in ImagePaths
    /\ image_exists \in BOOLEAN
    /\ parser_raw_text \in OcrTexts
    /\ extracted_text = <<>>
    /\ factual_completeness = Unset
    /\ quality = Unset
    /\ parsing_consistency = Unset
    /\ calls = [c \in Collaborators |-> 0]
    /\ judged = [j \in Judges |-> NotCalled]
    /\ result = NotCalled
    /\ text = <<>>
    /\ parsed = NotCalled
    /\ WorkflowIdle

Next ==
    \/ ExtractNotFound
    \/ ExtractReadFails
    \/ ExtractCallFails
    \/ ExtractOk
    \/ JudgeFactualCompleteness
    \/ JudgeQuality
    \/ JudgeParsingConsistency
    \/ SkipParsingConsistency
    \/ Aggregate

Spec == Init /\ [][Next]_vars

----------------------------------------------------------------------------
(* _parse_json called on its own, on every text up to MaxTextLen tokens *)

ParserAlphabet == {Fence, NL, LBrace, RBrace, ScoreKey, NumTok(4200), Word}

Texts == UNION {[1..n -> ParserAlphabet] : n \in 0..MaxTextLen}

ParserInit ==
    /\ text \in Texts
    /\ parsed = NotCalled
    /\ pc = "idle"
    /\ image_path = <<>>
    /\ image_exists = FALSE
    /\ parser_raw_text = <<>>
    /\ extracted_text = <<>>
    /\ factual_completeness = Unset
    /\ quality = Unset
    /\ parsing_consistency = Unset
    /\ calls = [c \in Collaborators |-> 0]
    /\ judged = [j \in Judges |-> NotCalled]
    /\ result = NotCalled
    /\ WorkflowIdle

ParseText ==
    /\ parsed = NotCalled
    /\ parsed' = _parse_json(text)
    /\ UNCHANGED <<text, evalVars, wfVars>>

ParserNext == ParseText

ParserSpec == ParserInit /\ [][ParserNext]_vars

----------------------------------------------------------------------------
(* Vocabulary of the properties *)

Slot(j) ==
    CASE j = "factual_completeness" -> factual_completeness
      [] j = "quality" -> quality
      [] j = "parsing_consistency" -> parsing_consistency

\* every judge step of evaluate has been taken
JudgesDone == pc = "aggregate" \/ (pc = "done" /\ parsing_consistency # Unset)

\* evaluate has ended and its extraction step had succeeded
EndedAfterExtraction == pc = "done" /\ factual_completeness # Unset

\* evaluate has ended and its extraction step had failed
EndedAtExtraction == pc = "done" /\ factual_completeness = Unset

HasKey(v, k) == IsDict(v) /\ k \in DOMAIN v.d

NonEmptyStr(v) == v.kind = "str" /\ v.s # <<>>

\* the str v holds the str sub
Contains(v, sub) ==
    /\ v.kind = "str"
    /\ \E i \in 1..Len(v.s) : SubSeq(v.s, i, i + Len(sub) - 1) = sub

\* { error: <message>, score: 0 }
IsFailureStub(v) ==
    /\ IsDict(v)
    /\ DOMAIN v.d = {"error", "score"}
    /\ NonEmptyStr(v.d.error)
    /\ v.d.score = PyNum(0)

\* { score: 0, skipped: <reason> }
IsSkipStub(v) ==
    /\ IsDict(v)
    /\ DOMAIN v.d = {"score", "skipped"}
    /\ NonEmptyStr(v.d.skipped)
    /\ v.d.score = PyNum(0)

\* { error: "Parse failed", raw: <text> }
IsParseFailure(v) ==
    /\ IsDict(v)
    /\ DOMAIN v.d = {"error", "raw"}
    /\ v.d.error = PyStr(<<Tok("Parse failed")>>)

\* evaluate returned a result that carries a numeric overall_score
HasOverallScore ==
    /\ Returned(result)
    /\ HasKey(result.val, "overall_score")
    /\ IsNumber(result.val.d.overall_score)

----------------------------------------------------------------------------
(* C1 *)

\* C1: once extraction has succeeded, evaluate returns a result with a
\* numeric overall_score whatever the three judge calls did: it never raises.
C1_AlwaysScores == EndedAfterExtraction => HasOverallScore

----------------------------------------------------------------------------
(* C2 *)

\* a verdict whose score is a number from lo to hi, or a stub with score 0
WellFormed(v, lo, hi) ==
    /\ HasKey(v, "score")
    /\ IsNumber(v.d.score)
    /\ \/ Hundredths(lo) <= v.d.score.n /\ v.d.score.n <= Hundredths(hi)
       \/ (IsFailureStub(v) \/ IsSkipStub(v))

WellFormedVerdicts ==
    /\ WellFormed(factual_completeness, 0, 100)
    /\ WellFormed(quality, 1, 4)
    /\ WellFormed(parsing_consistency, 0, 100)

\* C2: with well-formed verdicts (factual completeness 0..100, quality 1..4,
\* parsing consistency 0..100, or a stub with score 0 in any slot) the
\* overall_score evaluate returns is from 0 to 100.
C2_OverallInRange ==
    (EndedAfterExtraction /\ WellFormedVerdicts) =>
        /\ HasOverallScore
        /\ 0 <= result.val.d.overall_score.n
        /\ result.val.d.overall_score.n <= Hundredths(100)

\* well-formed verdicts with the top score in every slot give exactly 100
C2_Witness ==
    /\ EndedAfterExtraction
    /\ WellFormedVerdicts
    /\ GetScore(quality) = PyNum(Hundredths(4))
    /\ HasOverallScore
    /\ result.val.d.overall_score.n = Hundredths(100)

----------------------------------------------------------------------------
(* C3 *)

\* the slot of judge k is what judge k returned
HoldsWhatReturned(k) == Returned(judged[k]) => Slot(k) = judged[k].val

\* C3 as stated: when a judge raises, its slot is a stub with an error
\* message and score 0, both other judges are invoked, and their slots hold
\* what they returned.
C3_OthersInvoked ==
    JudgesDone =>
        \A j \in Judges : Raised(judged[j]) =>
            /\ IsFailureStub(Slot(j))
            /\ \A k \in Judges \ {j} : calls[k] = 1 /\ HoldsWhatReturned(k)

\* C3 amended: when a judge raises, its slot is a stub with an error message
\* and score 0; the factual-completeness and quality judges are invoked all
\* the same, and the parsing-consistency judge is invoked if OCR text was
\* given (its slot is the skip stub otherwise); the slots of the judges that
\* returned hold what they returned.
C3_FailuresIsolated ==
    JudgesDone =>
        \A j \in Judges : Raised(judged[j]) =>
            /\ IsFailureStub(Slot(j))
            /\ \A k \in Judges \ {j} :
                /\ HoldsWhatReturned(k)
                /\ IF k = "parsing_consistency" /\ parser_raw_text = <<>>
                   THEN calls[k] = 0 /\ IsSkipStub(Slot(k))
                   ELSE calls[k] = 1

\* the first judge raised, the other two were invoked and returned verdicts
C3_Witness ==
    /\ pc = "done"
    /\ Raised(judged["factual_completeness"])
    /\ calls["quality"] = 1 /\ calls["parsing_consistency"] = 1
    /\ Returned(judged["quality"]) /\ HasKey(quality, "score")
    /\ Returned(judged["parsing_consistency"])
    /\ HasKey(parsing_consistency, "score")
    /\ HasOverallScore

----------------------------------------------------------------------------
(* C4 *)

\* C4: when the image does not exist, evaluate returns a dict holding only an
\* error message that contains the image path, and no external call is made.
C4_NotFound ==
    (pc = "done" /\ ~image_exists) =>
        /\ Returned(result)
        /\ IsDict(result.val)
        /\ DOMAIN result.val.d = {"error"}
        /\ Contains(result.val.d.error, image_path)
        /\ \A c \in Collaborators : calls[c] = 0

C4_Witness ==
    /\ pc = "done"
    /\ ~image_exists
    /\ Returned(result)
    /\ result.val.d.error = PyStr(<<Tok("Image not found: "), Tok("b.jpg")>>)

----------------------------------------------------------------------------
(* C5 *)

\* C5: when extraction fails evaluate returns a dict holding only an error
\* (no judge slot, no overall_score) and no judge is invoked; and evaluate
\* returns a dict with a top-level error only when extraction failed.
C5_ExtractionFatal ==
    /\ EndedAtExtraction =>
        /\ Returned(result)
        /\ IsDict(result.val)
        /\ DOMAIN result.val.d = {"error"}
        /\ \A j \in Judges : calls[j] = 0 /\ Slot(j) = Unset
    /\ (pc = "done" /\ Returned(result) /\ HasKey(result.val, "error")) =>
        EndedAtExtraction

\* the extraction call was made and raised
C5_Witness ==
    /\ EndedAtExtraction
    /\ calls["extract"] = 1
    /\ Returned(result)
    /\ Contains(result.val.d.error, <<Tok("Failed to extract invoice text: ")>>)

\* a judge failed and evaluate returned a result without a top-level error
C5_WitnessJudgeFailure ==
    /\ EndedAfterExtraction
    /\ \E j \in Judges : Raised(judged[j])
    /\ HasOverallScore
    /\ ~HasKey(result.val, "error")

----------------------------------------------------------------------------
(* C6 *)

\* the response of judge j could not be parsed as JSON
ParseFailed(j) == Returned(judged[j]) /\ IsParseFailure(judged[j].val)

\* C6: when a judge's response cannot be parsed as JSON, that judge's slot is
\* a failure stub holding an error and score 0.
C6_ParseFailureIsStub ==
    JudgesDone =>
        \A j \in Judges : ParseFailed(j) =>
            /\ HasKey(Slot(j), "error")
            /\ HasKey(Slot(j), "score")
            /\ Slot(j).d.score = PyNum(0)

----------------------------------------------------------------------------
(* C7, C8: checked under ParserSpec *)

\* C7: _parse_json never raises, and the failure object it returns when no
\* tier decodes holds the original text under raw.
C7_ParserNeverRaises ==
    parsed # NotCalled =>
        /\ Returned(parsed)
        /\ IsParseFailure(parsed.val) => parsed.val.d.raw = PyStr(text)

\* C8: what _parse_json returns is a JSON object or the failure object,
\* never a bare number, string, null or other value.
C8_ParserReturnsObject == Returned(parsed) => IsDict(parsed.val)

----------------------------------------------------------------------------
(* C9 *)

\* the slot holds the score of a judge that answered
RealScore(v) ==
    HasKey(v, "score") /\ ~HasKey(v, "error") /\ ~HasKey(v, "skipped")

\* what the slots of the judges that answered add up to, in thousandths
SumOfRealScores ==
    (IF RealScore(factual_completeness)
     THEN factual_completeness.d.score.n * WeightFactual ELSE 0)
    + (IF RealScore(quality)
       THEN QualityNormalized(quality.d.score).n * WeightQuality ELSE 0)
    + (IF RealScore(parsing_consistency)
       THEN parsing_consistency.d.score.n * WeightParsing ELSE 0)

\* C9: a failed or skipped judge, and a slot without a score, adds 0:
\* overall_score is the weighted sum over the judges that returned a score,
\* and 0 when no judge did.
C9_FailedContributeZero ==
    (EndedAfterExtraction /\ HasOverallScore) =>
        /\ result.val.d.overall_score.n \in Round2(SumOfRealScores)
        /\ (\A j \in Judges : ~RealScore(Slot(j))) =>
            result.val.d.overall_score = PyNum(0)

\* one answer and two failures: only the answer counts
C9_Witness ==
    /\ EndedAfterExtraction
    /\ HasOverallScore
    /\ RealScore(factual_completeness)
    /\ factual_completeness.d.score = PyNum(8333)
    /\ IsParseFailure(quality)
    /\ IsFailureStub(parsing_consistency)
    /\ result.val.d.overall_score = PyNum(3333)

\* a failed call, a failed parse and a skipped judge: 0
C9_WitnessAllFail ==
    /\ EndedAfterExtraction
    /\ IsFailureStub(factual_completeness)
    /\ IsParseFailure(quality)
    /\ IsSkipStub(parsing_consistency)
    /\ HasOverallScore
    /\ result.val.d.overall_score = PyNum(0)

----------------------------------------------------------------------------
(* C10 *)

\* C10: judge C is invoked exactly when parser_raw_text is not empty; when it
\* is empty the slot is the skip stub (score 0, a reason, no error), no
\* judge-C call is made, and the other two judges are invoked all the same.
C10_JudgeCIffOcrText ==
    /\ calls["parsing_consistency"] > 0 => parser_raw_text # <<>>
    /\ JudgesDone =>
        /\ calls["parsing_consistency"] = 1 <=> parser_raw_text # <<>>
        /\ parser_raw_text = <<>> =>
            /\ IsSkipStub(parsing_consistency)
            /\ judged["parsing_consistency"] = NotCalled
            /\ calls["parsing_consistency"] = 0
            /\ calls["factual_completeness"] = 1
            /\ calls["quality"] = 1

C10_Witness ==
    /\ pc = "done"
    /\ parser_raw_text = <<>>
    /\ IsSkipStub(parsing_consistency)
    /\ calls["quality"] = 1
    /\ HasOverallScore

----------------------------------------------------------------------------
(* C11, C12 *)

\* the score read from a slot, 0 when it has none, in hundredths
ScoreRead(v) == IF HasKey(v, "score") THEN v.d.score.n ELSE 0

\* the quality term as C11 states it: times 25 up to 4, unchanged above 4
QualityTerm(s) == IF s <= 400 THEN s * 25 ELSE s

\* o (hundredths) is x (thousandths) rounded to 2 decimal places
RoundedTo2(o, x) == 10 * o - x \in -5..5

\* the quality term that entered the sum, times its weight 0.3, within the
\* rounding of overall_score: overall_score less the two other terms
QualityShare ==
    10 * result.val.d.overall_score.n
        - 4 * ScoreRead(factual_completeness) - 3 * ScoreRead(parsing_consistency)

\* C11: the quality term of the weighted sum is the quality score times 25
\* when the score is at most 4 and the score itself when it is above 4; a
\* quality score of 4 enters as 100 and adds 30 points to overall_score.
C11_QualityNormalization ==
    (EndedAfterExtraction /\ HasOverallScore) =>
        /\ QualityShare - 3 * QualityTerm(ScoreRead(quality)) \in -5..5
        /\ ScoreRead(quality) = 400 => QualityShare - 30000 \in -5..5

\* quality 4 with the two other judges failed: overall_score is 30
C11_Witness ==
    /\ EndedAfterExtraction
    /\ HasOverallScore
    /\ quality.d = [score |-> PyNum(400)]
    /\ IsFailureStub(factual_completeness)
    /\ IsSkipStub(parsing_consistency)
    /\ result.val.d.overall_score = PyNum(3000)

\* quality 4.5 is above the 1-4 scale and enters as 4.5: 1.35 points
C11_WitnessAboveScale ==
    /\ EndedAfterExtraction
    /\ HasOverallScore
    /\ quality.d = [score |-> PyNum(450)]
    /\ IsFailureStub(factual_completeness)
    /\ IsSkipStub(parsing_consistency)
    /\ result.val.d.overall_score = PyNum(135)

\* C12: for numeric scores overall_score is 0.4 times the factual score plus
\* 0.3 times the normalized quality score plus 0.3 times the parsing score,
\* rounded to 2 decimal places; the weights sum to 1.0.
C12_WeightedSum ==
    /\ WeightFactual + WeightQuality + WeightParsing = 10
    /\ (EndedAfterExtraction /\ HasOverallScore) =>
        RoundedTo2(result.val.d.overall_score.n,
                   4 * ScoreRead(factual_completeness)
                   + 3 * QualityTerm(ScoreRead(quality))
                   + 3 * ScoreRead(parsing_consistency))

\* 0.4 * 83.33 + 0.3 * 87.5 + 0.3 * 83.33 = 84.581 is returned as 84.58
C12_Witness ==
    /\ EndedAfterExtraction
    /\ HasOverallScore
    /\ factual_completeness.d = [score |-> PyNum(8333)]
    /\ quality.d = [score |-> PyNum(350)]
    /\ parsing_consistency.d = [score |-> PyNum(8333)]
    /\ result.val.d.overall_score = PyNum(8458)

\* a sum that ends in 5 thousandths: 0.3 * 83.35 = 25.005
C12_WitnessTie ==
    /\ EndedAfterExtraction
    /\ HasOverallScore
    /\ IsFailureStub(factual_completeness)
    /\ IsFailureStub(quality)
    /\ parsing_consistency.d = [score |-> PyNum(8335)]
    /\ result.val.d.overall_score = PyNum(2500)

----------------------------------------------------------------------------
(* C13, C14: checked under ParserSpec *)

\* s is a fence line (the fence, then nothing or a language tag, then a
\* newline), an interior, and a closing fence
IsFenced(s) ==
    /\ Len(s) >= 3
    /\ s[1] = Fence
    /\ s[Len(s)] = Fence
    /\ s[2] = NL \/ (Len(s) >= 4 /\ s[2] = Word /\ s[3] = NL)

\* what lies between the fence line and the closing fence
Interior(s) == SubSeq(s, IF s[2] = NL THEN 3 ELSE 4, Len(s) - 1)

\* C13: a response that, trimmed, is a fence line, a valid JSON object and a
\* closing fence is parsed to exactly that object.
C13_FencedObject ==
    (/\ parsed # NotCalled
     /\ IsFenced(Strip(text))
     /\ Returned(JsonLoads(Interior(Strip(text))))
     /\ IsDict(JsonLoads(Interior(Strip(text))).val)) =>
        parsed = JsonLoads(Interior(Strip(text)))

\* a fence with a language tag around an object
C13_Witness ==
    /\ text = <<Fence, Word, NL, LBrace, RBrace, Fence>>
    /\ parsed = Return(PyDict(EmptyDict))

\* whitespace before the fence, no language tag
C13_WitnessTrimmed ==
    /\ text = <<NL, Fence, NL, LBrace, RBrace, Fence>>
    /\ parsed = Return(PyDict(EmptyDict))

\* the text reaches the strict decoding of line 276
StrictReached(t) == ~(StartsWithFence(Strip(t)) /\ Find(Strip(t), NL) = -1)

\* the text that is decoded strictly
StrictText(t) ==
    IF StartsWithFence(Strip(t)) THEN FenceStripped(Strip(t)) ELSE Strip(t)

Opens(t) == {i \in 1..Len(t) : t[i] = LBrace}
Closes(t) == {i \in 1..Len(t) : t[i] = RBrace}

\* the original text from its first left brace to its last right brace
BraceSubstring(t) ==
    SubSeq(t, CHOOSE i \in Opens(t) : \A j \in Opens(t) : i <= j,
              CHOOSE i \in Closes(t) : \A j \in Closes(t) : i >= j)

\* the braces of the text hold a value that decodes
Recoverable(t) ==
    /\ Opens(t) # {}
    /\ Closes(t) # {}
    /\ Returned(JsonLoads(BraceSubstring(t)))

\* C14: when the strict decoding fails, the parser returns the object decoded
\* from the original text between its first left brace and its last right
\* brace when that substring is valid JSON, and the failure object otherwise.
C14_BraceFallback ==
    (/\ parsed # NotCalled
     /\ StrictReached(text)
     /\ ~Returned(JsonLoads(StrictText(text)))) =>
        IF Recoverable(text)
        THEN parsed = JsonLoads(BraceSubstring(text)) /\ IsDict(parsed.val)
        ELSE parsed = Return(ParseFailure(text))

\* an object between prose
C14_Witness ==
    /\ text = <<Word, LBrace, ScoreKey, NumTok(4200), RBrace, Word>>
    /\ parsed = Return(PyDict([score |-> PyNum(4200)]))

\* braces that hold no valid JSON
C14_WitnessFailure ==
    /\ text = <<Word, LBrace, RBrace, RBrace>>
    /\ parsed = Return(ParseFailure(text))

----------------------------------------------------------------------------
(* C15 *)

\* evaluate is past its extraction step, which succeeded
PastExtraction ==
    pc \in {"judge_fc", "judge_quality", "judge_pc", "aggregate"}
    \/ EndedAfterExtraction

\* C15 as stated: no collaborator is called more than once, and in every run
\* the extraction call is made exactly once, before any judge call.
C15_ExtractExactlyOnce ==
    /\ \A c \in Collaborators : calls[c] <= 1
    /\ (\E j \in Judges : calls[j] > 0) => calls["extract"] = 1
    /\ pc = "done" => calls["extract"] = 1

\* C15 amended: no collaborator is called more than once, also after a
\* failure; the extraction call is made exactly once in every run that gets
\* to it and before any judge call, and not at all when the image is missing.
C15_SingleAttempt ==
    /\ \A c \in Collaborators : calls[c] <= 1
    /\ (\E j \in Judges : calls[j] > 0) => calls["extract"] = 1
    /\ PastExtraction => calls["extract"] = 1
    /\ (pc = "done" /\ ~image_exists) => calls["extract"] = 0
    /\ (pc = "done" /\ calls["extract"] = 0) => \A j \in Judges : calls[j] = 0

\* two judges raised and every collaborator was called once
C15_Witness ==
    /\ pc = "done"
    /\ Raised(judged["factual_completeness"])
    /\ Raised(judged["quality"])
    /\ \A c \in Collaborators : calls[c] = 1

----------------------------------------------------------------------------
(* The workflow: src/app/workflow/graph.py and run of src/main.py *)

\* a Python list, and the ParsedInvoice of src/app/parsers/ocr_parser.py
PyList(items) == [kind |-> "list", items |-> items]
ParsedInvoice(raw) == [kind |-> "ParsedInvoice", raw_text |-> PyStr(raw)]

\* the truth value Python gives a value in an if
Truthy(v) ==
    CASE v.kind = "None" -> FALSE
      [] v.kind = "str" -> v.s # <<>>
      [] v.kind = "list" -> v.items # <<>>
      [] v.kind = "dict" -> DOMAIN v.d # {}
      [] v.kind = "num" -> v.n # 0
      [] OTHER -> TRUE

\* d.get(k) of a state
Get(d, k) == IF k \in DOMAIN d THEN d[k] ELSE PyNone

\* the graph writes the keys a node returns into its state
Merge(st, upd) ==
    [k \in DOMAIN st \cup DOMAIN upd |-> IF k \in DOMAIN upd THEN upd[k] ELSE st[k]]

\* OCRParser().parse(...): it raises, or returns the invoice with its raw text
ParserOutcomes ==
    {Raise("Exception", <<Tok("no converter")>>)}
    \cup {Return(ParsedInvoice(raw)) : raw \in OcrTexts}

InsightLists == {<<>>, <<Tok("insight 1"), Tok("insight 2")>>}

\* InsightGenerator(...).generate(...): it raises, or returns a list
GeneratorOutcomes ==
    {Raise("Exception", <<Tok("no model")>>)}
    \cup {Return(PyList(l)) : l \in InsightLists}

\* graph.py lines 8-23: the update parse_invoice returns
parse_invoice(parser) ==
    IF Returned(parser)
    THEN [parsed_invoice |-> parser.val, parser_used |-> PyStr(<<Tok("ocr")>>)]
    ELSE [error |-> PyStr(<<Tok("Parsing failed: ")>> \o parser.msg)]

\* graph.py lines 33-38: generate_insights gets as far as the generator
GeneratorReached(st) ==
    ~Truthy(Get(st, "error")) /\ Truthy(Get(st, "parsed_invoice"))

\* mutant of generate_insights: the check of state.get("error") is left out
GenerateInsightsNoErrorCheck(st, gen) ==
    IF ~Truthy(Get(st, "parsed_invoice"))
    THEN [error |-> PyStr(<<Tok("No parsed invoice data available")>>)]
    ELSE IF Returned(gen)
    THEN [insights |-> gen.val]
    ELSE [error |-> PyStr(<<Tok("Generation failed: ")>> \o gen.msg)]

\* graph.py lines 26-46: the update generate_insights returns
generate_insights(st, gen) ==
    IF Truthy(Get(st, "error")) THEN EmptyDict
    ELSE IF ~Truthy(Get(st, "parsed_invoice"))
    THEN [error |-> PyStr(<<Tok("No parsed invoice data available")>>)]
    ELSE IF Returned(gen)
    THEN [insights |-> gen.val]
    ELSE [error |-> PyStr(<<Tok("Generation failed: ")>> \o gen.msg)]

\* states generate_insights may be called on directly: with or without an
\* error (the empty str counts as none), with or without a parsed invoice
NodeStates ==
    {Merge(e, p) :
        e \in {EmptyDict, [error |-> PyStr(<<>>)],
               [error |-> PyStr(<<Tok("Parsing failed: "), Tok("no converter")>>)]},
        p \in {EmptyDict, [parsed_invoice |-> ParsedInvoice(<<Tok("ocr text")>>)]}}

\* main.py lines 21-23
RunNotFound ==
    /\ wpc = "run"
    /\ ~image_exists
    /\ run_result' = Raise("FileNotFoundError", <<Tok("Image not found: ")>> \o image_path)
    /\ wpc' = "returned"
    /\ UNCHANGED <<evalVars, parserVars, state, updates, wcalls, wout>>

\* main.py lines 27-28: workflow.invoke({"image_path": ...})
RunInvoke ==
    /\ wpc = "run"
    /\ image_exists
    /\ state' = [image_path |-> PyStr(image_path)]
    /\ wpc' = "parse"
    /\ UNCHANGED <<evalVars, parserVars, updates, wcalls, wout, run_result>>

\* graph.py lines 8-23, as the node "parse"
ParseInvoice ==
    /\ wpc = "parse"
    /\ \E parser \in ParserOutcomes :
        /\ wout' = [wout EXCEPT !.parser = parser]
        /\ updates' = [updates EXCEPT !.parse = Return(PyDict(parse_invoice(parser)))]
        /\ state' = Merge(state, parse_invoice(parser))
    /\ wcalls' = [wcalls EXCEPT !.parser = @ + 1]
    /\ wpc' = "generate"
    /\ UNCHANGED <<evalVars, parserVars, run_result>>

\* graph.py lines 26-46, as the node "generate" or called on its own
GenerateInsights ==
    /\ wpc \in {"generate", "node_call"}
    /\ \E gen \in GeneratorOutcomes :
        /\ wout' = [wout EXCEPT
                      !.generator = IF GeneratorReached(state) THEN gen ELSE NotCalled]
        /\ updates' = [updates EXCEPT
                         !.generate = Return(PyDict(generate_insights(state, gen)))]
        /\ state' = IF wpc = "generate"
                    THEN Merge(state, generate_insights(state, gen))
                    ELSE state
    /\ wcalls' = [wcalls EXCEPT
                    !.generator = IF GeneratorReached(state) THEN @ + 1 ELSE @]
    /\ wpc' = IF wpc = "generate" THEN "end" ELSE "node_returned"
    /\ UNCHANGED <<evalVars, parserVars, run_result>>

\* main.py lines 30-31
RunReturnsError ==
    /\ wpc = "end"
    /\ Truthy(Get(state, "error"))
    /\ run_result' = Return(PyDict([error |-> state.error]))
    /\ wpc' = "returned"
    /\ UNCHANGED <<evalVars, parserVars, state, updates, wcalls, wout>>

\* main.py lines 33-40: evaluate is called
RunEvaluate ==
    /\ wpc = "end"
    /\ ~Truthy(Get(state, "error"))
    /\ pc = "idle"
    /\ pc' = "extract"
    /\ parser_raw_text' = IF Truthy(Get(state, "parsed_invoice"))
                          THEN state.parsed_invoice.raw_text.s
                          ELSE <<>>
    /\ wcalls' = [wcalls EXCEPT !.evaluate = @ + 1]
    /\ wpc' = "evaluating"
    /\ UNCHANGED <<image_path, image_exists, extracted_text,
                   factual_completeness, quality, parsing_consistency, calls,
                   judged, result, parserVars, state, updates, wout, run_result>>

\* main.py lines 40-49: evaluate has ended; what it raised, run raises
RunReturn ==
    /\ wpc = "evaluating"
    /\ pc = "done"
    /\ run_result' =
        IF Returned(result)
        THEN Return(PyDict(
                [workflow |-> PyDict([parser_used |-> Get(state, "parser_used"),
                                      insights |-> IF "insights" \in DOMAIN state
                                                   THEN state.insights
                                                   ELSE PyList(<<>>)]),
                 evaluation |-> result.val]))
        ELSE result
    /\ wpc' = "returned"
    /\ UNCHANGED <<evalVars, parserVars, state, updates, wcalls, wout>>

WorkflowInit ==
    /\ pc = "idle"
    /\ image_path \in ImagePaths
    /\ image_exists \in BOOLEAN
    /\ parser_raw_text = <<>>
    /\ extracted_text = <<>>
    /\ factual_completeness = Unset
    /\ quality = Unset
    /\ parsing_consistency = Unset
    /\ calls = [c \in Collaborators |-> 0]
    /\ judged = [j \in Judges |-> NotCalled]
    /\ result = NotCalled
    /\ text = <<>>
    /\ parsed = NotCalled
    /\ updates = [parse |-> NotCalled, generate |-> NotCalled]
    /\ wcalls = [parser |-> 0, generator |-> 0, evaluate |-> 0]
    /\ wout = [parser |-> NotCalled, generator |-> NotCalled]
    /\ run_result = NotCalled
    /\ \/ wpc = "run" /\ state = EmptyDict
       \/ wpc = "node_call" /\ state \in NodeStates

\* run has seen the image exist (main.py line 22) before evaluate looks for
\* it, so ExtractNotFound is no step of a run
WorkflowNext ==
    \/ RunNotFound
    \/ RunInvoke
    \/ ParseInvoice
    \/ GenerateInsights
    \/ RunReturnsError
    \/ RunEvaluate
    \/ ExtractReadFails
    \/ ExtractCallFails
    \/ ExtractOk
    \/ JudgeFactualCompleteness
    \/ JudgeQuality
    \/ JudgeParsingConsistency
    \/ SkipParsingConsistency
    \/ Aggregate
    \/ RunReturn

WorkflowSpec == WorkflowInit /\ [][WorkflowNext]_vars

----------------------------------------------------------------------------
(* C16: checked under WorkflowSpec *)

\* the parse node has run in a workflow and its parser raised
ParseNodeFailed == wpc \in {"generate", "end", "returned"} /\ Raised(wout.parser)

\* the generate node has run in a workflow
GenerateNodeDone == wpc \in {"end", "evaluating", "returned"}

ParsingFailedError == PyStr(<<Tok("Parsing failed: ")>> \o wout.parser.msg)

\* C16: a failure of parse_invoice records an error and no parsed_invoice;
\* generate_insights then calls no generator and returns an empty update, so
\* the error stays and no insights are set; run returns a dict with only that
\* error and never calls evaluate.  Without an error and without a parsed
\* invoice, generate_insights sets an error and calls no generator.
C16_ErrorSticky ==
    /\ ParseNodeFailed =>
        /\ Get(state, "error") = ParsingFailedError
        /\ "parsed_invoice" \notin DOMAIN state
        /\ GenerateNodeDone =>
            /\ wcalls.generator = 0
            /\ updates.generate = Return(PyDict(EmptyDict))
            /\ "insights" \notin DOMAIN state
        /\ wpc = "returned" =>
            /\ run_result = Return(PyDict([error |-> ParsingFailedError]))
            /\ wcalls.evaluate = 0
            /\ pc = "idle"
            /\ \A c \in Collaborators : calls[c] = 0
    /\ (/\ wpc = "node_returned"
        /\ ~Truthy(Get(state, "error"))
        /\ ~Truthy(Get(state, "parsed_invoice"))) =>
        /\ updates.generate =
             Return(PyDict([error |-> PyStr(<<Tok("No parsed invoice data available")>>)]))
        /\ wcalls.generator = 0

\* the parser raised and run has returned the parsing error
C16_Witness ==
    /\ wpc = "returned"
    /\ Raised(wout.parser)
    /\ wcalls.parser = 1
    /\ Returned(run_result)
    /\ DOMAIN run_result.val.d = {"error"}

\* generate_insights called on a state with neither error nor parsed invoice
C16_WitnessNoInvoice ==
    /\ wpc = "node_returned"
    /\ state = EmptyDict
    /\ HasKey(updates.generate.val, "error")

\* a run without any failure reaches evaluate and returns both parts
C16_WitnessEvaluated ==
    /\ wpc = "returned"
    /\ wcalls.evaluate = 1
    /\ Returned(run_result)
    /\ DOMAIN run_result.val.d = {"workflow", "evaluation"}

====
